---- MODULE Spec2Model ----
(***************************************************************************)
(* ElectricityMapsSchedulerOperator (scheduler.py): a deferrable Airflow   *)
(* operator that asks the Electricity Maps optimizer for the best start    *)
(* time, then either returns at once or defers itself until that time.     *)
(*                                                                         *)
(* Times are seconds.  The wall clock moves in steps of half an hour so    *)
(* that sub-hour durations and off-the-hour timestamps occur.              *)
(***************************************************************************)
EXTENDS Integers, Sequences, FiniteSets, TLC

VARIABLES
    clock,          \* the wall clock, datetime.now(timezone.utc)
    op,             \* op[i]: the operator's fields set by __init__
    context,        \* context[i]: the Airflow context handed to execute
    pc,             \* pc[i]: where task instance i is
    oracleCalls,    \* oracleCalls[i]: the calls made to schedule_execution
    oracleResults,  \* oracleResults[i]: what schedule_execution produced
    nowRead,        \* nowRead[i]: the values execute read from the clock
    deferred        \* deferred[i]: the self.defer(...) calls made

vars == <<clock, op, context, pc, oracleCalls, oracleResults, nowRead, deferred>>

----------------------------------------------------------------------------
(* Bounds *)

MaxTicks == 4           \* the clock runs from 0 to MaxTicks half-hours
MaxDurationTicks == 4   \* expected_duration is at most this many half-hours
MaxPatienceHours == 2   \* patience is at most this many hours
MaxExecTicks == 1       \* execution_date is at most this many half-hours

----------------------------------------------------------------------------
(* Time *)

SecondsPerHour == 3600

Tick == SecondsPerHour \div 2

TimeStamps == {k * Tick : k \in 0..MaxTicks}

\* timedelta values the DAG author may pass; nothing in __init__ restricts
\* them, so zero and negative spans are included
Durations == {k * Tick : k \in (-1)..MaxDurationTicks}

Patiences == {k * SecondsPerHour : k \in 0..MaxPatienceHours}

ExecDates == {k * Tick : k \in 0..MaxExecTicks}

\* (latitude, longitude), whole degrees
Locations == {<<48, 2>>, <<52, 13>>}

DEFAULT_OPTIMIZATION_SIGNAL == "FLOW_TRACED_CARBON_INTENSITY"

\* OptimizationOutput: the three metric values, the unit and the zone
Diagnostics ==
    { [metric_value_immediate_execution |-> 100,
       metric_value_optimal_execution |-> 80,
       metric_value_start_window_execution |-> 90,
       metric_unit |-> "gCO2eq/kWh",
       zone_key |-> "FR"],
      [metric_value_immediate_execution |-> 300,
       metric_value_optimal_execution |-> 250,
       metric_value_start_window_execution |-> 270,
       metric_unit |-> "gCO2eq/kWh",
       zone_key |-> "DE"] }

----------------------------------------------------------------------------
(* Pure parts of execute *)

\* Python's int() on a float: truncation toward zero
TruncDiv(a, b) == IF a >= 0 THEN a \div b ELSE -((-a) \div b)

\* int() replaced by rounding up
DurationHoursCeil(d) == -((-d) \div SecondsPerHour)

\* int(self.expected_duration.total_seconds() / 3600)
DurationHours(d) == TruncDiv(d, SecondsPerHour)

\* the next whole hour at or after t
RoundUpHour(t) == -((-t) \div SecondsPerHour) * SecondsPerHour

\* the deadline rounded up to the hour
EndDatetimeRounded(execution_date, self) ==
    RoundUpHour(execution_date + self.expected_duration)

\* the span subtracted instead of added
EndDatetimeBackward(execution_date, self) ==
    execution_date - self.expected_duration

\* the patience taken as the span
EndDatetimeFromPatience(execution_date, self) == execution_date + self.patience

\* context["execution_date"] + self.expected_duration
EndDatetime(execution_date, self) == execution_date + self.expected_duration

\* the comparison reversed
OptimalTimePassedReversed(optimal_start_time, now) == now < optimal_start_time

\* the comparison made non-strict
OptimalTimePassedNonStrict(optimal_start_time, now) == optimal_start_time <= now

\* optimal_execution.optimal_start_time < now
OptimalTimePassed(optimal_start_time, now) == optimal_start_time < now

\* the trigger set an hour early
DeferCallEarly(optimal_execution) ==
    [trigger |-> [moment |-> optimal_execution.optimal_start_time - SecondsPerHour,
                  end_from_trigger |-> TRUE],
     method_name |-> "execute_complete"]

\* self.defer(trigger=DateTimeTrigger(moment=..., end_from_trigger=True),
\*            method_name="execute_complete")
DeferCall(optimal_execution) ==
    [trigger |-> [moment |-> optimal_execution.optimal_start_time,
                  end_from_trigger |-> TRUE],
     method_name |-> "execute_complete"]

\* The keyword arguments of schedule_execution, with the time of the call
ScheduleExecutionArgs(self, ctx, at) ==
    [expected_duration_hours |-> DurationHours(self.expected_duration),
     end_datetime |-> EndDatetime(ctx.execution_date, self),
     optimization_signal |-> DEFAULT_OPTIMIZATION_SIGNAL,
     locations |-> <<self.location>>,
     at |-> at]

\* What the optimizer may answer to a call: any start time of the modelled
\* range (the operator does not check it against end_datetime), any
\* location (the operator does not check it against the one it sent), any
\* diagnostics
OptimizerResponses(call) ==
    [kind : {"return"},
     optimal_start_time : TimeStamps,
     optimal_location : Locations,
     optimization_output : Diagnostics]

OracleError == [kind |-> "raise"]

----------------------------------------------------------------------------
(* State machine *)

Items == DOMAIN pc

\* The state after __init__ for the task instances in S, constructed at
\* time t with expected durations in Ds, patiences in Ps and locations in
\* Ls, for DAG runs with execution dates in Es
InitConfigured(S, Ds, Ps, Ls, Es, t) ==
    /\ clock = t
    /\ op \in [S -> [patience : Ps,
                     expected_duration : Ds,
                     location : Ls]]
    /\ context \in [S -> [execution_date : Es]]
    /\ pc = [i \in S |-> "start"]
    /\ oracleCalls = [i \in S |-> <<>>]
    /\ oracleResults = [i \in S |-> <<>>]
    /\ nowRead = [i \in S |-> <<>>]
    /\ deferred = [i \in S |-> <<>>]

InitItems(S) == InitConfigured(S, Durations, Patiences, Locations, ExecDates, 0)

Init == InitItems({1})

\* Two task instances of one DAG run side by side, each constructed with
\* one of two expected durations and one of two patiences, at a time when
\* the earlier timestamps are already in the past
PairDurations == {Tick, 3 * Tick}

PairPatiences == {SecondsPerHour, 2 * SecondsPerHour}

PairLocations == {<<48, 2>>}

PairExecDates == {0, Tick}

PairStart == (MaxTicks - 1) * Tick

InitPair ==
    InitConfigured({1, 2}, PairDurations, PairPatiences, PairLocations,
                   PairExecDates, PairStart)

\* Wall-clock time passes
ClockTick ==
    /\ clock < MaxTicks * Tick
    /\ clock' = clock + Tick
    /\ UNCHANGED <<op, context, pc, oracleCalls, oracleResults, nowRead, deferred>>

\* execute, up to the point where schedule_execution has been called and
\* the operator is blocked in it
ExecuteCallsOracle(i) ==
    /\ pc[i] = "start"
    /\ oracleCalls' = [oracleCalls EXCEPT
           ![i] = Append(@, ScheduleExecutionArgs(op[i], context[i], clock))]
    /\ pc' = [pc EXCEPT ![i] = "schedule_execution"]
    /\ UNCHANGED <<clock, op, context, oracleResults, nowRead, deferred>>

\* the clock read kept in a place all task instances share
ExecuteDecidesSharedClockRead(i) ==
    /\ pc[i] = "schedule_execution"
    /\ \E optimal_execution \in OptimizerResponses(oracleCalls[i][Len(oracleCalls[i])]) :
         LET now == clock IN
         /\ oracleResults' = [oracleResults EXCEPT ![i] = Append(@, optimal_execution)]
         /\ nowRead' = [j \in DOMAIN nowRead |-> Append(nowRead[j], now)]
         /\ IF optimal_execution.optimal_start_time < now
            THEN /\ pc' = [pc EXCEPT ![i] = "returned"]
                 /\ UNCHANGED deferred
            ELSE /\ pc' = [pc EXCEPT ![i] = "deferred"]
                 /\ deferred' = [deferred EXCEPT
                        ![i] = Append(@, DeferCall(optimal_execution))]
    /\ UNCHANGED <<clock, op, context, oracleCalls>>

\* deferring only when the metric improves by at least 30
ExecuteDecidesOnGain(i) ==
    /\ pc[i] = "schedule_execution"
    /\ \E optimal_execution \in OptimizerResponses(oracleCalls[i][Len(oracleCalls[i])]) :
         LET now == clock
             gain == optimal_execution.optimization_output.metric_value_immediate_execution
                       - optimal_execution.optimization_output.metric_value_optimal_execution
         IN
         /\ oracleResults' = [oracleResults EXCEPT ![i] = Append(@, optimal_execution)]
         /\ nowRead' = [nowRead EXCEPT ![i] = Append(@, now)]
         /\ IF optimal_execution.optimal_start_time < now \/ gain < 30
            THEN /\ pc' = [pc EXCEPT ![i] = "returned"]
                 /\ UNCHANGED deferred
            ELSE /\ pc' = [pc EXCEPT ![i] = "deferred"]
                 /\ deferred' = [deferred EXCEPT
                        ![i] = Append(@, DeferCall(optimal_execution))]
    /\ UNCHANGED <<clock, op, context, oracleCalls>>

\* asking the optimizer once more when the optimal time has passed
ExecuteDecidesRequeries(i) ==
    /\ pc[i] = "schedule_execution"
    /\ \E optimal_execution \in OptimizerResponses(oracleCalls[i][Len(oracleCalls[i])]) :
         LET now == clock IN
         /\ oracleResults' = [oracleResults EXCEPT ![i] = Append(@, optimal_execution)]
         /\ nowRead' = [nowRead EXCEPT ![i] = <<now>>]
         /\ IF optimal_execution.optimal_start_time < now
            THEN /\ pc' = [pc EXCEPT ![i] =
                        IF Len(oracleCalls[i]) < 2 THEN "start" ELSE "returned"]
                 /\ UNCHANGED deferred
            ELSE /\ pc' = [pc EXCEPT ![i] = "deferred"]
                 /\ deferred' = [deferred EXCEPT
                        ![i] = Append(@, DeferCall(optimal_execution))]
    /\ UNCHANGED <<clock, op, context, oracleCalls>>

\* the clock read before schedule_execution is called
ExecuteDecidesEarlyNow(i) ==
    /\ pc[i] = "schedule_execution"
    /\ \E optimal_execution \in OptimizerResponses(oracleCalls[i][Len(oracleCalls[i])]) :
         LET now == oracleCalls[i][Len(oracleCalls[i])].at IN
         /\ oracleResults' = [oracleResults EXCEPT ![i] = Append(@, optimal_execution)]
         /\ nowRead' = [nowRead EXCEPT ![i] = Append(@, now)]
         /\ IF optimal_execution.optimal_start_time < now
            THEN /\ pc' = [pc EXCEPT ![i] = "returned"]
                 /\ UNCHANGED deferred
            ELSE /\ pc' = [pc EXCEPT ![i] = "deferred"]
                 /\ deferred' = [deferred EXCEPT
                        ![i] = Append(@, DeferCall(optimal_execution))]
    /\ UNCHANGED <<clock, op, context, oracleCalls>>

\* schedule_execution returns; execute reads the clock, compares and
\* either returns None or defers
ExecuteDecides(i) ==
    /\ pc[i] = "schedule_execution"
    /\ \E optimal_execution \in OptimizerResponses(oracleCalls[i][Len(oracleCalls[i])]) :
         LET now == clock IN
         /\ oracleResults' = [oracleResults EXCEPT ![i] = Append(@, optimal_execution)]
         /\ nowRead' = [nowRead EXCEPT ![i] = Append(@, now)]
         /\ IF OptimalTimePassed(optimal_execution.optimal_start_time, now)
            THEN /\ pc' = [pc EXCEPT ![i] = "returned"]
                 /\ UNCHANGED deferred
            ELSE /\ pc' = [pc EXCEPT ![i] = "deferred"]
                 /\ deferred' = [deferred EXCEPT
                        ![i] = Append(@, DeferCall(optimal_execution))]
    /\ UNCHANGED <<clock, op, context, oracleCalls>>

\* the exception caught and the call made a second time
OracleRaisesRetried(i) ==
    /\ pc[i] = "schedule_execution"
    /\ oracleResults' = [oracleResults EXCEPT ![i] = Append(@, OracleError)]
    /\ pc' = [pc EXCEPT ![i] = IF Len(oracleCalls[i]) < 2 THEN "start" ELSE "raised"]
    /\ UNCHANGED <<clock, op, context, oracleCalls, nowRead, deferred>>

\* the exception swallowed and execute returning None
OracleRaisesSwallowed(i) ==
    /\ pc[i] = "schedule_execution"
    /\ oracleResults' = [oracleResults EXCEPT ![i] = Append(@, OracleError)]
    /\ pc' = [pc EXCEPT ![i] = "returned"]
    /\ UNCHANGED <<clock, op, context, oracleCalls, nowRead, deferred>>

\* schedule_execution raises; execute has no try/except, the exception
\* leaves execute
OracleRaises(i) ==
    /\ pc[i] = "schedule_execution"
    /\ oracleResults' = [oracleResults EXCEPT ![i] = Append(@, OracleError)]
    /\ pc' = [pc EXCEPT ![i] = "raised"]
    /\ UNCHANGED <<clock, op, context, oracleCalls, nowRead, deferred>>

\* execute_complete asking the optimizer again
ExecuteCompleteQueriesAgain(i) ==
    /\ pc[i] = "deferred"
    /\ clock >= deferred[i][Len(deferred[i])].trigger.moment
    /\ pc' = [pc EXCEPT ![i] = "complete"]
    /\ oracleCalls' = [oracleCalls EXCEPT
           ![i] = Append(@, ScheduleExecutionArgs(op[i], context[i], clock))]
    /\ UNCHANGED <<clock, op, context, oracleResults, nowRead, deferred>>

\* The DateTimeTrigger fires at or after its moment and the task resumes
\* in the method named in defer: execute_complete, which returns None
ExecuteComplete(i) ==
    /\ pc[i] = "deferred"
    /\ clock >= deferred[i][Len(deferred[i])].trigger.moment
    /\ pc' = [pc EXCEPT ![i] = "complete"]
    /\ UNCHANGED <<clock, op, context, oracleCalls, oracleResults, nowRead, deferred>>

Next ==
    \/ ClockTick
    \/ \E i \in Items : ExecuteCallsOracle(i)
    \/ \E i \in Items : ExecuteDecides(i)
    \/ \E i \in Items : OracleRaises(i)
    \/ \E i \in Items : ExecuteComplete(i)

Spec == Init /\ [][Next]_vars

\* Two task instances run interleaved in any order
SpecPair == InitPair /\ [][Next]_vars

\* One task instance, with a clock that keeps advancing and a triggerer
\* that resumes a deferred task once its trigger can fire
SpecLive ==
    /\ Init
    /\ [][Next]_vars
    /\ WF_vars(ClockTick)
    /\ WF_vars(\E i \in Items : ExecuteComplete(i))

----------------------------------------------------------------------------
(* Vocabulary of the properties *)

\* The call whose result is being decided on
LastCall(i) == oracleCalls[i][Len(oracleCalls[i])]

LastResult(i) == oracleResults[i][Len(oracleResults[i])]

\* execute has read the clock and compared
Decided(i) == nowRead[i] # <<>>

\* execute returned None: the work proceeds now
ProceedNow(i) == pc[i] = "returned"

\* execute deferred: the work is, or was, suspended
Suspended(i) == pc[i] \in {"deferred", "complete"}

\* The preconditions the design puts on a request
ValidRequest(i) ==
    /\ op[i].expected_duration > 0
    /\ op[i].patience > 0

\* The arguments proper of a recorded call (without the time of the call)
CallArgs(call) ==
    <<call.expected_duration_hours, call.end_datetime,
      call.optimization_signal, call.locations>>

\* Everything that belongs to task instance i
ItemState(i) ==
    <<op[i], context[i], pc[i], oracleCalls[i], oracleResults[i],
      nowRead[i], deferred[i]>>

\* The transitions of one task instance
Transitions ==
    { <<"start", "schedule_execution">>,
      <<"schedule_execution", "returned">>,
      <<"schedule_execution", "deferred">>,
      <<"schedule_execution", "raised">>,
      <<"deferred", "complete">> }

----------------------------------------------------------------------------
(* Properties *)

\* C1: whenever the optimal start time the optimizer returned is strictly
\* before the 'now' that execute read, execute returned None and no
\* suspension was registered; and no suspension is ever registered with a
\* resume time strictly before that 'now'.
C1_ProceedNowWhenPast ==
    \A i \in Items :
        Decided(i) =>
            /\ LastResult(i).optimal_start_time < nowRead[i][1]
                   => ProceedNow(i) /\ deferred[i] = <<>>
            /\ \A k \in 1..Len(deferred[i]) :
                   deferred[i][k].trigger.moment >= nowRead[i][1]

C1_Witness ==
    \E i \in Items :
        /\ Decided(i)
        /\ LastResult(i).optimal_start_time < nowRead[i][1]
        /\ ProceedNow(i)

\* C2: whenever the optimal start time is at or after the 'now' that
\* execute read (equality included), execute did not return None: it called
\* defer exactly once, with a DateTimeTrigger whose moment is exactly the
\* optimal start time and with method_name "execute_complete".
C2_SuspendUntilOptimal ==
    \A i \in Items :
        (Decided(i) /\ LastResult(i).optimal_start_time >= nowRead[i][1]) =>
            /\ Suspended(i)
            /\ ~ProceedNow(i)
            /\ Len(deferred[i]) = 1
            /\ deferred[i][1].trigger.moment = LastResult(i).optimal_start_time
            /\ deferred[i][1].method_name = "execute_complete"

\* the boundary: optimal start time equal to now
C2_Witness ==
    \E i \in Items :
        /\ Decided(i)
        /\ LastResult(i).optimal_start_time = nowRead[i][1]
        /\ nowRead[i][1] > 0
        /\ pc[i] = "deferred"
        /\ deferred[i][1].trigger.moment = nowRead[i][1]

\* C3 (as claimed): for a valid request, the instant the work is released
\* (the 'now' of a return, the trigger moment of a deferral) is never later
\* than the end_datetime that was sent to the optimizer.
C3_DeadlineSafety ==
    \A i \in Items :
        (ValidRequest(i) /\ Decided(i)) =>
            /\ ProceedNow(i) => nowRead[i][1] <= LastCall(i).end_datetime
            /\ \A k \in 1..Len(deferred[i]) :
                   deferred[i][k].trigger.moment <= LastCall(i).end_datetime

\* C4: schedule_execution is never called more than once by one execute,
\* and once execute is past its first statement (blocked in the call,
\* returned, deferred, or left by the exception) it was called exactly once.
C4_OracleCalledOnce ==
    \A i \in Items :
        /\ Len(oracleCalls[i]) <= 1
        /\ pc[i] # "start" => Len(oracleCalls[i]) = 1

\* the failure path: the call raised and was not repeated
C4_Witness ==
    \E i \in Items :
        /\ pc[i] = "raised"
        /\ LastResult(i) = OracleError
        /\ Len(oracleCalls[i]) = 1

\* C5: in every call of schedule_execution, expected_duration_hours is the
\* expected duration truncated to whole hours (the floor for positive
\* durations, toward zero otherwise), locations is the one-element list of
\* the configured location, and the signal is the flow-traced carbon
\* intensity.
C5_OracleArguments ==
    \A i \in Items : \A k \in 1..Len(oracleCalls[i]) :
        LET call == oracleCalls[i][k]
            d == op[i].expected_duration
            h == call.expected_duration_hours
        IN  /\ d >= 0 => (h * 3600 <= d /\ d < (h + 1) * 3600)
            /\ d < 0 => (d <= h * 3600 /\ h * 3600 < d + 3600)
            /\ call.locations = <<op[i].location>>
            /\ call.optimization_signal = "FLOW_TRACED_CARBON_INTENSITY"

\* a duration of an hour and a half is sent as one hour
C5_Witness ==
    \E i \in Items :
        /\ Len(oracleCalls[i]) = 1
        /\ op[i].expected_duration = 5400
        /\ oracleCalls[i][1].expected_duration_hours = 1
        /\ oracleCalls[i][1].locations = <<op[i].location>>

\* C6 (as claimed): for a request with a non-positive expected duration or
\* a non-positive patience, schedule_execution is never called and execute
\* neither returns None nor defers.
C6_InvalidRequestRejected ==
    \A i \in Items :
        ~ValidRequest(i) =>
            /\ oracleCalls[i] = <<>>
            /\ ~ProceedNow(i)
            /\ ~Suspended(i)

\* C7: when schedule_execution raised, the exception left execute: execute
\* neither returned None nor deferred, did not go on to read the clock,
\* registered no suspension, and did not call again.
C7_OracleErrorPropagates ==
    \A i \in Items :
        (oracleResults[i] # <<>> /\ LastResult(i) = OracleError) =>
            /\ pc[i] = "raised"
            /\ deferred[i] = <<>>
            /\ nowRead[i] = <<>>
            /\ Len(oracleResults[i]) = 1

C7_Witness ==
    \E i \in Items :
        /\ oracleResults[i] = <<OracleError>>
        /\ pc[i] = "raised"
        /\ clock > 0

\* C8 (as claimed): the end_datetime of every call of schedule_execution is
\* the clock at the call plus the patience, rounded up to the next hour.
C8_DeadlineFromPatience ==
    \A i \in Items : \A k \in 1..Len(oracleCalls[i]) :
        oracleCalls[i][k].end_datetime
            = RoundUpHour(oracleCalls[i][k].at + op[i].patience)

C10_DeadlineNotBeforeReference ==
    \A i \in Items : \A k \in 1..Len(oracleCalls[i]) :
        oracleCalls[i][k].end_datetime >= context[i].execution_date

\* C11: of two task instances with the same execution_date, the one with
\* the smaller (or equal) expected duration sends the earlier (or equal)
\* end_datetime; and with the expected duration also equal, the one with
\* the smaller patience does not send a later end_datetime.
C11_DeadlineMonotone ==
    \A i \in Items : \A j \in Items :
        (/\ oracleCalls[i] # <<>>
         /\ oracleCalls[j] # <<>>
         /\ context[i].execution_date = context[j].execution_date) =>
            /\ op[i].expected_duration <= op[j].expected_duration
                   => oracleCalls[i][1].end_datetime <= oracleCalls[j][1].end_datetime
            /\ (/\ op[i].expected_duration = op[j].expected_duration
                /\ op[i].patience <= op[j].patience)
                   => oracleCalls[i][1].end_datetime <= oracleCalls[j][1].end_datetime

\* two instances of one run, the second with the strictly longer duration
C11_Witness ==
    /\ oracleCalls[1] # <<>>
    /\ oracleCalls[2] # <<>>
    /\ context[1].execution_date = context[2].execution_date
    /\ op[1].expected_duration < op[2].expected_duration
    /\ oracleCalls[1][1].end_datetime < oracleCalls[2][1].end_datetime

\* C12: once a task instance is deferred, the only thing that happens to
\* it is the resumption into execute_complete, which calls the optimizer
\* no more, reads the clock no more and defers no more; over its whole
\* life a task instance calls the optimizer at most once and is deferred
\* at most once.
C12_ContinuationIsNoOp ==
    /\ [](\A i \in Items : Len(oracleCalls[i]) <= 1 /\ Len(deferred[i]) <= 1)
    /\ [][\A i \in Items :
            pc[i] \in {"deferred", "complete"} =>
                /\ pc'[i] \in {"deferred", "complete"}
                /\ pc[i] = "complete" => pc'[i] = "complete"
                /\ oracleCalls'[i] = oracleCalls[i]
                /\ oracleResults'[i] = oracleResults[i]
                /\ nowRead'[i] = nowRead[i]
                /\ deferred'[i] = deferred[i]]_vars

\* a task instance that was deferred and has been resumed
C12_Witness ==
    \E i \in Items :
        /\ pc[i] = "complete"
        /\ Len(oracleCalls[i]) = 1
        /\ Len(deferred[i]) = 1
        /\ clock >= deferred[i][1].trigger.moment

\* C13: a task instance only moves start -> schedule_execution ->
\* {returned, deferred} (or raised) and deferred -> complete, never
\* backwards; once the optimizer has returned, exactly one of the two
\* outcomes holds, with defer called exactly once when the outcome is a
\* suspension and not at all when it is a return.
C13_StateMachine ==
    /\ [](\A i \in Items :
            /\ Decided(i) =>
                   /\ ProceedNow(i) \/ Suspended(i)
                   /\ ~(ProceedNow(i) /\ Suspended(i))
            /\ (ProceedNow(i) \/ Suspended(i)) =>
                   Decided(i) /\ LastResult(i).kind = "return"
            /\ ProceedNow(i) => Len(deferred[i]) = 0
            /\ Suspended(i) => Len(deferred[i]) = 1
            /\ pc[i] \in {"start", "schedule_execution", "raised"}
                   => deferred[i] = <<>> /\ ~Decided(i))
    /\ [][\A i \in Items :
            pc'[i] # pc[i] => <<pc[i], pc'[i]>> \in Transitions]_vars

\* the suspension outcome, reached and resumed
C13_Witness ==
    \E i \in Items :
        /\ pc[i] = "complete"
        /\ Decided(i)
        /\ LastResult(i).kind = "return"
        /\ Len(deferred[i]) = 1
        /\ Len(oracleResults[i]) = 1

\* C14: with two task instances interleaved in any order, a step of one
\* instance changes nothing that belongs to the other, and two instances
\* that agree on their own configuration and execution date send the same
\* arguments, and when they also agree on the optimizer's answer and on the
\* 'now' they read, they end with the same outcome and the same deferral.
C14_CallsIndependent ==
    /\ [](\A i \in Items : \A j \in Items :
            (op[i] = op[j] /\ context[i] = context[j]) =>
                /\ (oracleCalls[i] # <<>> /\ oracleCalls[j] # <<>>) =>
                       CallArgs(oracleCalls[i][1]) = CallArgs(oracleCalls[j][1])
                /\ (/\ Decided(i)
                    /\ Decided(j)
                    /\ oracleResults[i] = oracleResults[j]
                    /\ nowRead[i] = nowRead[j]) =>
                       /\ ProceedNow(i) <=> ProceedNow(j)
                       /\ Suspended(i) <=> Suspended(j)
                       /\ deferred[i] = deferred[j])
    /\ [][\A i \in Items : \A j \in Items :
            (i # j /\ ItemState(i)' # ItemState(i)) => ItemState(j)' = ItemState(j)]_vars

\* the second instance called the optimizer and was deferred while the
\* first, configured alike, was still blocked in its own earlier call
C14_Witness ==
    /\ op[1] = op[2]
    /\ context[1] = context[2]
    /\ pc[1] = "schedule_execution"
    /\ pc[2] = "deferred"
    /\ oracleCalls[1][1].at < oracleCalls[2][1].at
    /\ CallArgs(oracleCalls[1][1]) = CallArgs(oracleCalls[2][1])

\* C15: two task instances that agree on configuration, execution date,
\* the 'now' they read and the optimal start time they were given end with
\* the same outcome and the same deferral, whatever the diagnostics and the
\* optimal location of their responses.
C15_DiagnosticsIgnored ==
    \A i \in Items : \A j \in Items :
        (/\ Decided(i)
         /\ Decided(j)
         /\ op[i] = op[j]
         /\ context[i] = context[j]
         /\ nowRead[i] = nowRead[j]
         /\ LastResult(i).optimal_start_time = LastResult(j).optimal_start_time) =>
            /\ ProceedNow(i) <=> ProceedNow(j)
            /\ Suspended(i) <=> Suspended(j)
            /\ deferred[i] = deferred[j]

\* two deferrals to the same moment from responses that differ in both
\* the diagnostics and the location
C15_Witness ==
    /\ Decided(1)
    /\ Decided(2)
    /\ op[1] = op[2]
    /\ context[1] = context[2]
    /\ nowRead[1] = nowRead[2]
    /\ LastResult(1).optimal_start_time = LastResult(2).optimal_start_time
    /\ LastResult(1).optimization_output # LastResult(2).optimization_output
    /\ LastResult(1).optimal_location # LastResult(2).optimal_location
    /\ pc[1] = "deferred"
    /\ pc[2] = "deferred"
    /\ deferred[1] = deferred[2]

\* C16 (as claimed): for a request with positive expected duration and
\* positive patience, every call of schedule_execution has
\* expected_duration_hours >= 1 and a non-empty locations list.
C16_OracleInputContract ==
    \A i \in Items : \A k \in 1..Len(oracleCalls[i]) :
        ValidRequest(i) =>
            /\ oracleCalls[i][k].expected_duration_hours >= 1
            /\ Len(oracleCalls[i][k].locations) >= 1

\* C17: the clock is read at most once per execute, in the very step in
\* which schedule_execution returns, and it is the time of that step that
\* is read; when the optimal start time is before the clock at that step,
\* execute returns None, however early the call was made.
C17_NowReadAfterResponse ==
    /\ [](\A i \in Items : Len(nowRead[i]) <= 1)
    /\ [][\A i \in Items :
            /\ nowRead'[i] # nowRead[i] =>
                   /\ Len(oracleResults'[i]) = Len(oracleResults[i]) + 1
                   /\ nowRead'[i] = <<clock>>
            /\ (/\ Len(oracleResults'[i]) = Len(oracleResults[i]) + 1
                /\ oracleResults'[i][Len(oracleResults'[i])].kind = "return") =>
                   /\ nowRead'[i] = <<clock>>
                   /\ oracleResults'[i][Len(oracleResults'[i])].optimal_start_time < clock
                          => pc'[i] = "returned"]_vars

\* the optimal start time was still ahead when the call was made and had
\* passed when the answer came
C17_Witness ==
    \E i \in Items :
        /\ Decided(i)
        /\ LastCall(i).at < LastResult(i).optimal_start_time
        /\ LastResult(i).optimal_start_time < nowRead[i][1]
        /\ ProceedNow(i)
        /\ deferred[i] = <<>>

C19_ResumedAtOrAfter ==
    /\ [][\A i \in Items :
            /\ (pc[i] = "deferred" /\ pc'[i] # "deferred") =>
                   /\ pc'[i] = "complete"
                   /\ clock >= LastResult(i).optimal_start_time
            /\ pc[i] = "complete" => pc'[i] = "complete"]_vars
    /\ (pc[1] = "deferred") ~> (pc[1] = "complete")
    /\ Decided(1) ~> (pc[1] \in {"returned", "complete"})

\* a task that had to wait and was resumed after the optimal start time
C19_Witness ==
    /\ pc[1] = "complete"
    /\ nowRead[1][1] < LastResult(1).optimal_start_time
    /\ clock >= LastResult(1).optimal_start_time

====
